---- MODULE Spec2Model ----
(***************************************************************************)
(* ZX3_Downloader: the verify-or-obtain file cache (chk_or_obtain), the     *)
(* tag-driven selection and deployment of zip and files packs              *)
(* (build_sd_fromzip, chk_files_cache, build_sd_files), the manifests      *)
(* (load_db), the run over the packs of the root manifest (main) and the   *)
(* calls of the arcade converter (build_arc_files).                        *)
(*                                                                         *)
(* Conventions of the model:                                               *)
(*  - a path is a sequence of segments; the file system is a function from *)
(*    the paths of the regular files to their contents, a directory exists *)
(*    where the code has created it before writing (mkdir parents=True);   *)
(*  - a content is a record [hash, size]: what get_file_hash and st_size   *)
(*    read from the file;                                                  *)
(*  - the hash '' is 0 and the hashes of real contents are 1..MaxHash;     *)
(*    the size 0 is "unchecked" and real sizes are 1..MaxSize;             *)
(*  - a URL is a sequence of tokens, '' is the empty sequence;             *)
(*  - an uncaught Python exception ends the run: raised = TRUE.            *)
(***************************************************************************)
EXTENDS Integers, Sequences, FiniteSets, TLC

VARIABLES fs, last, streak, pack, run

vars == <<fs, last, streak, pack, run>>

\* ------------------------------------------------------------------ bounds
MaxHash == 2

MaxSize == 2

MaxFiles == 2

\* ------------------------------------------------------------- file system
Contents == [hash : 1..MaxHash, size : 1..MaxSize]

NoFs == [p \in {} |-> 0]

isfile(f, p) == p \in DOMAIN f

WriteFile(f, p, c) == [q \in (DOMAIN f) \cup {p} |-> IF q = p THEN c ELSE f[q]]

remove(f, p) == [q \in (DOMAIN f) \ {p} |-> f[q]]

dirname(p) == IF Len(p) = 0 THEN p ELSE SubSeq(p, 1, Len(p) - 1)

IsPrefix(d, p) == Len(d) <= Len(p) /\ SubSeq(p, 1, Len(d)) = d

\* pathlib.Path(d).mkdir(parents=True, exist_ok=True) raises (FileExistsError,
\* NotADirectoryError) exactly when d or one of its ancestors is a regular file
MkdirRaises(f, d) == \E k \in 1..Len(d) : isfile(f, SubSeq(d, 1, k))

\* shutil.rmtree(d): every file below d goes
rmtree(f, d) == [q \in {x \in DOMAIN f : ~IsPrefix(d, x)} |-> f[q]]

\* os.path.join(p, s): joining '' adds no segment
join(p, s) == IF s = "" THEN p ELSE Append(p, s)

\* os.path.join(p, os.path.join(*l))
joinall(p, l) == p \o l

\* ---------------------------------------------------------------- network
NoUrl == <<>>

\* what urllib.request.urlretrieve(url, path) does for a URL:
\*   ok    the body is written to path
\*   http  HTTPError (the resource is missing), nothing is written
\*   conn  URLError while connecting, nothing is written
\*   short ContentTooShortError (a URLError) after a truncated body was written
HttpMissing == [st |-> "http", body |-> [hash |-> 0, size |-> 0]]

Responses ==
    [st : {"ok", "short"}, body : Contents]
        \cup {HttpMissing, [st |-> "conn", body |-> [hash |-> 0, size |-> 0]]}

\* a truncated body is not the content the caller expects
Truncated == [hash |-> MaxHash, size |-> MaxSize]

Respond(net, url) == IF url \in DOMAIN net.remote THEN net.remote[url] ELSE HttpMissing

\* ------------------------------------------------------------ URL quoting
\* number of characters of a URL token: a percent escape has three
TokLen(t) == IF t = "%20" THEN 3 ELSE IF t = "%2520" THEN 5 ELSE 1

RECURSIVE StrLen(_)
StrLen(u) == IF u = <<>> THEN 0 ELSE TokLen(Head(u)) + StrLen(Tail(u))

\* urllib.parse.unquote: a percent escape becomes the character it stands for
unquote(u) ==
    [i \in 1..Len(u) |-> IF u[i] = "%20" THEN " " ELSE IF u[i] = "%2520" THEN "%20" ELSE u[i]]

\* urllib.parse.quote: an unsafe character (and '%' itself) is percent-encoded
quote(u) ==
    [i \in 1..Len(u) |-> IF u[i] = " " THEN "%20" ELSE IF u[i] = "%20" THEN "%2520" ELSE u[i]]

\* variant: the URL is encoded when decoding it changes its length
RequestUrl_WhenChanged(s_url) ==
    IF StrLen(unquote(s_url)) # StrLen(s_url) THEN quote(s_url) ELSE s_url

\* lines 1082-1088: the URL chk_or_obtain hands to urlretrieve
RequestUrl(s_url) == IF StrLen(unquote(s_url)) = StrLen(s_url) THEN quote(s_url) ELSE s_url

\* ------------------------------------------------------------ chk_or_obtain
get_file_hash(f, p) == f[p].hash

st_size(f, p) == f[p].size

\* variant: a file counts as wrong only when hash and size both differ
chk_file_hash_BothDiffer(f, s_fpath, s_hash, i_size) ==
    IF isfile(f, s_fpath)
    THEN IF s_hash # 0 /\ i_size # 0
         THEN ~(s_hash # f[s_fpath].hash /\ f[s_fpath].size # i_size)
         ELSE TRUE
    ELSE FALSE

chk_file_hash(f, s_fpath, s_hash, i_size) ==
    IF isfile(f, s_fpath)
    THEN IF s_hash # 0 /\ i_size # 0
         THEN ~(s_hash # get_file_hash(f, s_fpath) \/ st_size(f, s_fpath) # i_size)
         ELSE TRUE
    ELSE FALSE

Ev(op, p) == [op |-> op, path |-> p]

\* the outcome of a call that raised before returning
Raised(f, lg) == [fs |-> f, ok |-> FALSE, raised |-> TRUE, log |-> lg]

\* variant: the error page of a missing resource is saved as the file
Retrieve_SavesError(f, s_fpath, s_url, net) ==
    LET r == Respond(net, RequestUrl(s_url))
    IN  IF r.st = "conn" THEN f
        ELSE WriteFile(f, s_fpath, IF r.st = "http" THEN Truncated ELSE r.body)

\* lines 1090-1096: urlretrieve inside the try
Retrieve(f, s_fpath, s_url, net) ==
    LET r == Respond(net, RequestUrl(s_url))
    IN  IF r.st \in {"ok", "short"} THEN WriteFile(f, s_fpath, r.body) ELSE f

\* lines 1099-1103: ZipFile(s_zip_path).open(s_orig) copied to s_fpath; a missing
\* archive (FileNotFoundError) or a missing entry (KeyError) is not caught
ExtractRaises(s_zip_path, s_orig, net) ==
    \/ s_zip_path \notin DOMAIN net.archives
    \/ s_orig \notin DOMAIN net.archives[s_zip_path]

Extract(f, s_fpath, s_zip_path, s_orig, net) ==
    WriteFile(f, s_fpath, net.archives[s_zip_path][s_orig])

\* variant: the force flag is not honoured
ForceRemove_Ignored(f, s_fpath, b_force) == FALSE

\* lines 1071-1072
ForceRemove(f, s_fpath, b_force) == b_force /\ isfile(f, s_fpath)

\* variant: an existing file is replaced without being verified first
StaleRemove_Always(f, s_fpath, s_hash, i_size) == isfile(f, s_fpath)

\* lines 1074-1077
StaleRemove(f, s_fpath, s_hash, i_size) ==
    ~chk_file_hash(f, s_fpath, s_hash, i_size) /\ isfile(f, s_fpath)

chk_or_obtain(f, s_fpath, s_hash, i_size, s_url, s_zip_path, s_orig, b_force, net) ==
    IF MkdirRaises(f, dirname(s_fpath)) THEN Raised(f, <<>>)
    ELSE
    LET forced == ForceRemove(f, s_fpath, b_force)
        f1 == IF forced THEN remove(f, s_fpath) ELSE f
        lg1 == IF forced THEN <<Ev("remove", s_fpath)>> ELSE <<>>
        stale == StaleRemove(f1, s_fpath, s_hash, i_size)
        f2 == IF stale THEN remove(f1, s_fpath) ELSE f1
        lg2 == lg1 \o <<Ev("verify", s_fpath)>>
                   \o (IF stale THEN <<Ev("remove", s_fpath)>> ELSE <<>>)
    IN  IF isfile(f2, s_fpath)
        THEN [fs |-> f2, ok |-> chk_file_hash(f2, s_fpath, s_hash, i_size),
              raised |-> FALSE, log |-> lg2 \o <<Ev("verify", s_fpath)>>]
        ELSE IF s_url # NoUrl
        THEN LET f3 == Retrieve(f2, s_fpath, s_url, net)
             IN  [fs |-> f3, ok |-> chk_file_hash(f3, s_fpath, s_hash, i_size),
                  raised |-> FALSE,
                  log |-> lg2 \o <<Ev("fetch", s_fpath), Ev("verify", s_fpath)>>]
        ELSE IF s_zip_path # <<>>
        THEN IF ExtractRaises(s_zip_path, s_orig, net)
             THEN Raised(f2, lg2 \o <<Ev("extract", s_fpath)>>)
             ELSE LET f3 == Extract(f2, s_fpath, s_zip_path, s_orig, net)
                  IN  [fs |-> f3, ok |-> chk_file_hash(f3, s_fpath, s_hash, i_size),
                       raised |-> FALSE,
                       log |-> lg2 \o <<Ev("extract", s_fpath), Ev("verify", s_fpath)>>]
        ELSE [fs |-> f2, ok |-> chk_file_hash(f2, s_fpath, s_hash, i_size),
              raised |-> FALSE,
              log |-> lg2 \o <<Ev("nosource", s_fpath), Ev("verify", s_fpath)>>]

\* did this chk_or_obtain call try to acquire the file (fetch or extract)?
Acquired(lg) == \E k \in 1..Len(lg) : lg[k].op \in {"fetch", "extract"}

\* ------------------------------------------------- selection and deployment
\* A manifest is the sequence of its artifact records in dictionary order; an
\* artifact is [key, file, path, hash, size, url, kind, type, tags], key being
\* the dictionary key split at '/'.  A tag dictionary is the sequence of its
\* [name, id] entries in dictionary order.
OutRoot == <<"SD">>

CacheRoot == <<"cache">>

\* s_file.split('/')[-1]
basename(key) == key[Len(key)]

\* for i_item in tags: for j_item in d_tags: if d_tags[j_item] == i_item and
\* j_item in l_tags -- the names j_item of the matching pairs, in loop order
RECURSIVE TagMatches(_, _, _)
TagMatches(tags, d_tags, l_tags) ==
    IF tags = <<>> THEN <<>>
    ELSE LET hits == SelectSeq(d_tags, LAMBDA e : e.id = Head(tags) /\ e.name \in l_tags)
         IN  [k \in 1..Len(hits) |-> hits[k].name] \o TagMatches(Tail(tags), d_tags, l_tags)

\* an event of a pack run: which artifact (index in the manifest), from where,
\* to which path, whether bytes were acquired, and the result
PEv(op, idx, src, p, acq, ok) ==
    [op |-> op, idx |-> idx, src |-> src, path |-> p, acq |-> acq, ok |-> ok]

\* the state threaded through the loops of a pack build
Step(f, ok, raised, lg) == [fs |-> f, ok |-> ok, raised |-> raised, log |-> lg]

\* lines 555-560: the base destination of a zip pack's artifact
ZipBase(a, c) ==
    IF c.s_out_subpath # ""
    THEN IF c.b_mist /\ c.s_out_subpath = "cores" /\ a.type = "bit"
         THEN join(OutRoot, "mist")
         ELSE join(OutRoot, c.s_out_subpath)
    ELSE OutRoot

\* lines 569 and 805: the type segment
TypeGrouped(a, c) == c.b_typegroups /\ ~(c.b_mist /\ a.type = "bit")

\* lines 568 and 804: "fully tagged item"
FullyTagged(a, c) == a.kind \in c.l_kinds /\ a.type \in c.l_types

\* lines 583-587 and 590-594: extraction of one artifact to s_dest
ZipObtain(st, s_dest, a, idx, c) ==
    LET r == chk_or_obtain(st.fs, s_dest, a.hash, a.size, NoUrl, c.s_zip_path, a.key,
                           FALSE, c.net)
    IN  Step(r.fs, r.ok, r.raised,
             Append(st.log, PEv("obtain", idx, a.key, s_dest, Acquired(r.log), r.ok)))

\* lines 572-587: the loop over the matching tags; s_dest is carried from one
\* match to the next
RECURSIVE ZipMatchLoop(_, _, _, _, _, _)
ZipMatchLoop(st, s_dest, ms, a, idx, c) ==
    IF ms = <<>> \/ st.raised THEN st
    ELSE LET d1 == IF c.b_taggroups THEN join(s_dest, Head(ms)) ELSE s_dest
             d2 == join(d1, a.file)
         IN  IF MkdirRaises(st.fs, d1)
             THEN Step(st.fs, st.ok, TRUE,
                       Append(st.log, PEv("mkdir", idx, a.key, d1, FALSE, FALSE)))
             ELSE ZipMatchLoop(ZipObtain(st, d2, a, idx, c), d2, Tail(ms), a, idx, c)

\* lines 552-594: one iteration of build_sd_fromzip's loop
ZipArtifact(st, a, idx, c) ==
    LET s_dest == joinall(ZipBase(a, c), a.path)
    IN  IF c.d_tags # <<>>
        THEN IF FullyTagged(a, c)
             THEN ZipMatchLoop(st,
                               IF TypeGrouped(a, c) THEN join(s_dest, a.type) ELSE s_dest,
                               TagMatches(a.tags, c.d_tags, c.l_tags), a, idx, c)
             ELSE st
        ELSE ZipObtain(st, join(s_dest, a.file), a, idx, c)

RECURSIVE ZipLoop(_, _, _)
ZipLoop(st, idx, c) ==
    IF idx > Len(c.files) \/ st.raised THEN st
    ELSE ZipLoop(ZipArtifact(st, c.files[idx], idx, c), idx + 1, c)

\* lines 549-596
build_sd_fromzip(f, c) == ZipLoop(Step(f, FALSE, FALSE, <<>>), 1, c)

\* variant: without a tag match nothing is downloaded, dictionary or not
CacheWanted_NeedsMatch(a, c) ==
    /\ (a.kind \in c.l_kinds /\ a.type \in c.l_types) \/ a.kind = ""
    /\ TagMatches(a.tags, c.d_tags, c.l_tags) # <<>>

\* lines 729-745: does chk_files_cache download this artifact?
CacheWanted(a, c) ==
    IF c.d_tags # <<>>
    THEN /\ (a.kind \in c.l_kinds /\ a.type \in c.l_types) \/ a.kind = ""
         /\ TagMatches(a.tags, c.d_tags, c.l_tags) # <<>>
    ELSE TRUE

\* lines 748-753: where chk_files_cache keeps the artifact
CachePath(a, c) == join(joinall(c.s_files_path, a.path), basename(a.key))

\* variant: a failed download ends the run
CacheArtifact_FailStops(st, a, idx, c) ==
    IF CacheWanted(a, c)
    THEN LET r == chk_or_obtain(st.fs, CachePath(a, c), a.hash, a.size, a.url, <<>>, <<>>,
                                c.b_force, c.net)
         IN  Step(r.fs, st.ok, r.raised \/ ~r.ok,
                  Append(st.log,
                         PEv("ensure", idx, a.url, CachePath(a, c), Acquired(r.log), r.ok)))
    ELSE st

\* lines 747-759
CacheArtifact(st, a, idx, c) ==
    IF CacheWanted(a, c)
    THEN LET r == chk_or_obtain(st.fs, CachePath(a, c), a.hash, a.size, a.url, <<>>, <<>>,
                                c.b_force, c.net)
         IN  Step(r.fs, st.ok, r.raised,
                  Append(st.log,
                         PEv("ensure", idx, a.url, CachePath(a, c), Acquired(r.log), r.ok)))
    ELSE st

RECURSIVE CacheLoop(_, _, _)
CacheLoop(st, idx, c) ==
    IF idx > Len(c.files) \/ st.raised THEN st
    ELSE CacheLoop(CacheArtifact(st, c.files[idx], idx, c), idx + 1, c)

\* lines 723-759; the function returns nothing
chk_files_cache(f, c) == CacheLoop(Step(f, TRUE, FALSE, <<>>), 1, c)

\* shutil.copyfile(orig, dest) raises OSError when orig is no file or dest is a
\* directory
CopyFails(f, s_orig, s_dest) ==
    \/ ~isfile(f, s_orig)
    \/ \E q \in DOMAIN f : q # s_dest /\ IsPrefix(s_dest, q)

\* lines 814-824, 838-848, 858-867: mkdir, then copyfile inside the try
CopyOne(st, s_orig, s_destpath, a, idx) ==
    LET s_dest == join(s_destpath, basename(a.key))
    IN  IF MkdirRaises(st.fs, s_destpath)
        THEN Step(st.fs, st.ok, TRUE,
                  Append(st.log, PEv("mkdir", idx, s_orig, s_destpath, FALSE, FALSE)))
        ELSE IF CopyFails(st.fs, s_orig, s_dest)
        THEN Step(st.fs, FALSE, FALSE,
                  Append(st.log, PEv("copy", idx, s_orig, s_dest, FALSE, FALSE)))
        ELSE Step(WriteFile(st.fs, s_dest, st.fs[s_orig]), st.ok, FALSE,
                  Append(st.log, PEv("copy", idx, s_orig, s_dest, FALSE, TRUE)))

\* variant: device mode redirects the 'bit' artifacts of every pack
FilesBase_AnySubpath(a, c) ==
    IF c.b_mist /\ a.type = "bit"
    THEN join(OutRoot, "mist")
    ELSE join(OutRoot, c.s_out_subpath)

\* lines 800-802: the base destination of a files pack's artifact
FilesBase(a, c) ==
    IF c.b_mist /\ c.s_out_subpath = "cores" /\ a.type = "bit"
    THEN join(OutRoot, "mist")
    ELSE join(OutRoot, c.s_out_subpath)

\* lines 807-824: fully tagged, one copy per matching tag
RECURSIVE FullLoop(_, _, _, _, _, _)
FullLoop(st, s_sdpath, ms, a, idx, c) ==
    IF ms = <<>> \/ st.raised THEN st
    ELSE FullLoop(CopyOne(st, join(c.s_files_path, basename(a.key)),
                          IF c.b_taggroups THEN join(s_sdpath, Head(ms)) ELSE s_sdpath,
                          a, idx),
                  s_sdpath, Tail(ms), a, idx, c)

\* lines 826-848: partially tagged, one copy per matching tag
RECURSIVE PartialLoop(_, _, _, _, _, _)
PartialLoop(st, s_sdpath, ms, a, idx, c) ==
    IF ms = <<>> \/ st.raised THEN st
    ELSE PartialLoop(CopyOne(st, join(joinall(c.s_files_path, a.path), basename(a.key)),
                             joinall(s_sdpath, a.path), a, idx),
                     s_sdpath, Tail(ms), a, idx, c)

\* lines 796-867: one iteration of build_sd_files' loop
FilesArtifact(st, a, idx, c) ==
    LET s_sdpath == FilesBase(a, c)
        ms == TagMatches(a.tags, c.d_tags, c.l_tags)
    IN  IF c.d_tags # <<>>
        THEN IF FullyTagged(a, c)
             THEN FullLoop(st, IF TypeGrouped(a, c) THEN join(s_sdpath, a.type) ELSE s_sdpath,
                           ms, a, idx, c)
             ELSE IF a.kind = ""
             THEN PartialLoop(st, s_sdpath, ms, a, idx, c)
             ELSE st
        ELSE CopyOne(st, join(joinall(c.s_files_path, a.path), basename(a.key)),
                     joinall(s_sdpath, a.path), a, idx)

RECURSIVE FilesLoop(_, _, _)
FilesLoop(st, idx, c) ==
    IF idx > Len(c.files) \/ st.raised THEN st
    ELSE FilesLoop(FilesArtifact(st, c.files[idx], idx, c), idx + 1, c)

\* lines 785-792: the output subtrees are emptied unless b_keep
CleanOut(f, c) ==
    IF c.b_keep THEN f
    ELSE rmtree(IF c.b_mist /\ c.s_out_subpath = "cores"
                THEN rmtree(f, join(OutRoot, "mist")) ELSE f,
                join(OutRoot, c.s_out_subpath))

\* lines 783-869
build_sd_files(f, lg, c) == FilesLoop(Step(CleanOut(f, c), TRUE, FALSE, lg), 1, c)

\* lines 504-506: the keep flag of the command line counts only for a pack
\* that declares args_keep
KeepOf(c) == IF c.args_keep THEN c.b_keep ELSE TRUE

\* lines 516-527: the cache is populated, then the files are copied
build_sd_files_fromdb(f, c) ==
    LET cached == chk_files_cache(f, c)
    IN  IF cached.raised THEN cached
        ELSE build_sd_files(cached.fs, cached.log, [c EXCEPT !.b_keep = KeepOf(c)])

\* ------------------------------------------------------------------ state
\* fs      the file system (cache and output tree)
\* last    the last chk_or_obtain call of the cache specification: arguments,
\*         network, file system before, result, and the previous call's result
\* streak  how many calls in a row had the arguments of the last one (up to 2)
\* pack    the pack being built: manifest, criteria, paths, network
\* run     the pack build: position, result, uncaught exception, events

\* the file chk_or_obtain is called for, its URL, the archive and the entry
TargetPath == CacheRoot \o <<"f">>

TargetUrl == <<"u">>

TargetZip == CacheRoot \o <<"pack.zip">>

TargetKey == <<"k">>

\* the expected hash and size are '' / 0 (unchecked) or those of one content
CallArgs == [s_hash : {0, 1}, i_size : {0, 1}, src : {"url", "zip", "none"}, b_force : BOOLEAN]

\* the states of the network and of the archive a call may meet
CallNets(src) ==
    IF src = "url"
    THEN {[remote |-> (TargetUrl :> r), archives |-> <<>>] :
            r \in [st : {"ok"}, body : Contents]
                     \cup (Responses \ [st : {"ok", "short"}, body : Contents])
                     \cup {[st |-> "short", body |-> Truncated]}}
    ELSE IF src = "zip"
    THEN {[remote |-> <<>>, archives |-> (TargetZip :> (TargetKey :> c))] : c \in Contents}
            \cup {[remote |-> <<>>, archives |-> (TargetZip :> <<>>)],
                  [remote |-> <<>>, archives |-> <<>>]}
    ELSE {[remote |-> <<>>, archives |-> <<>>]}

NoArgs == [s_hash |-> 0, i_size |-> 0, src |-> "none", b_force |-> FALSE]

NoNet == [remote |-> <<>>, archives |-> <<>>]

NoCall ==
    [called |-> FALSE, args |-> NoArgs, net |-> NoNet, pre |-> NoFs, ret |-> FALSE,
     raised |-> FALSE, log |-> <<>>, prevRet |-> FALSE, prevValid |-> FALSE]

NoPack == [ptype |-> "none"]

Idle == [pc |-> "idle", ok |-> FALSE, raised |-> FALSE, log |-> <<>>]

\* the hash+size rule of the specification, stated on a content
Passes(c, s_hash, i_size) == s_hash = 0 \/ i_size = 0 \/ (c.hash = s_hash /\ c.size = i_size)

\* the source named by the arguments delivers a content that passes
ValidSource(args, net) ==
    IF args.src = "url"
    THEN /\ Respond(net, RequestUrl(TargetUrl)).st = "ok"
         /\ Passes(Respond(net, RequestUrl(TargetUrl)).body, args.s_hash, args.i_size)
    ELSE IF args.src = "zip"
    THEN /\ TargetZip \in DOMAIN net.archives
         /\ TargetKey \in DOMAIN net.archives[TargetZip]
         /\ Passes(net.archives[TargetZip][TargetKey], args.s_hash, args.i_size)
    ELSE FALSE

\* ------------------------------------------------- the cache specification
InitCache ==
    /\ fs = NoFs
    /\ last = NoCall
    /\ streak = 0
    /\ pack = NoPack
    /\ run = Idle

\* one call chk_or_obtain(TargetPath, ...) under some state of the network
Call(args, net) ==
    LET r == chk_or_obtain(fs, TargetPath, args.s_hash, args.i_size,
                           IF args.src = "url" THEN TargetUrl ELSE NoUrl,
                           IF args.src = "zip" THEN TargetZip ELSE <<>>,
                           TargetKey, args.b_force, net)
    IN  /\ fs' = r.fs
        /\ last' = [called |-> TRUE, args |-> args, net |-> net, pre |-> fs, ret |-> r.ok,
                    raised |-> r.raised, log |-> r.log,
                    prevRet |-> last.called /\ last.ret,
                    prevValid |-> last.called /\ ValidSource(last.args, last.net)]
        /\ streak' = IF last.called /\ last.args = args THEN 2 ELSE 1
        /\ UNCHANGED <<pack, run>>

CallChkOrObtain == \E args \in CallArgs : \E net \in CallNets(args.src) : Call(args, net)

\* between two calls the cached file is replaced, damaged or deleted from outside
Tamper ==
    /\ \/ \E c \in Contents : fs' = WriteFile(fs, TargetPath, c)
       \/ fs' = remove(fs, TargetPath)
    /\ last' = NoCall
    /\ streak' = 0
    /\ UNCHANGED <<pack, run>>

NextCache == CallChkOrObtain \/ Tamper

SpecCache == InitCache /\ [][NextCache]_vars

\* ------------------------------------------------------ claims on the cache
\* positions of the acquisition attempts (fetch, extract) in a call's log
AcqAt(lg) == {k \in 1..Len(lg) : lg[k].op \in {"fetch", "extract"}}

RemoveAt(lg) == {k \in 1..Len(lg) : lg[k].op = "remove"}

\* C1: a second call in a row with the same arguments, force unset, after a call
\* whose URL or archive source was valid, acquires nothing, leaves the file as
\* it was, and both calls return success.
C1_IdempotentCache ==
    (streak = 2 /\ ~last.args.b_force /\ last.prevValid)
        => /\ last.prevRet
           /\ last.ret
           /\ ~last.raised
           /\ AcqAt(last.log) = {}
           /\ RemoveAt(last.log) = {}
           /\ fs = last.pre

C1_Witness ==
    /\ streak = 2
    /\ ~last.args.b_force
    /\ last.prevValid
    /\ last.args.s_hash # 0
    /\ last.args.i_size # 0
    /\ last.ret
    /\ isfile(fs, TargetPath)

\* the file before the last call fails the check on the hash or on the size
PreMismatch ==
    /\ last.called
    /\ isfile(last.pre, TargetPath)
    /\ last.args.s_hash # 0
    /\ last.args.i_size # 0
    /\ \/ last.pre[TargetPath].hash # last.args.s_hash
       \/ last.pre[TargetPath].size # last.args.i_size

\* C2: an existing file whose hash or size differs from the expected values
\* (both given) is deleted, then acquired again from the URL or the archive;
\* with a valid source the call returns success and the file passes the check.
C2_CorruptionSelfHeals ==
    (PreMismatch /\ last.args.src # "none")
        => /\ RemoveAt(last.log) # {}
           /\ AcqAt(last.log) # {}
           /\ \A i \in RemoveAt(last.log) : \A j \in AcqAt(last.log) : i < j
           /\ ValidSource(last.args, last.net)
                => /\ ~last.raised
                   /\ last.ret
                   /\ isfile(fs, TargetPath)
                   /\ fs[TargetPath].hash = last.args.s_hash
                   /\ fs[TargetPath].size = last.args.i_size

C2_Witness ==
    /\ PreMismatch
    /\ last.pre[TargetPath].hash = last.args.s_hash
    /\ last.args.src = "zip"
    /\ ValidSource(last.args, last.net)
    /\ last.ret
    /\ fs[TargetPath] # last.pre[TargetPath]

\* C3: with the force flag a file that exists, valid or not, is deleted before
\* anything else happens in the call, and the call then acquires it from its
\* source.
C3_ForcedRefresh ==
    (last.called /\ last.args.b_force /\ isfile(last.pre, TargetPath))
        => /\ last.log # <<>>
           /\ last.log[1] = Ev("remove", TargetPath)
           /\ last.args.src # "none" => AcqAt(last.log) # {}

C3_Witness ==
    /\ last.called
    /\ last.args.b_force
    /\ isfile(last.pre, TargetPath)
    /\ Passes(last.pre[TargetPath], last.args.s_hash, last.args.i_size)
    /\ last.args.s_hash # 0
    /\ last.args.i_size # 0
    /\ AcqAt(last.log) # {}
    /\ last.ret

\* C4: a call acquires at most once; when it returns, its result is success
\* exactly when the file exists and passes the hash+size rule (unchecked when
\* the hash is empty or the size is 0); a missing remote resource (HTTP error)
\* leaves the file absent and gives failure, without an exception.
C4_SingleAttemptResult ==
    last.called
        => /\ Cardinality(AcqAt(last.log)) <= 1
           /\ ~last.raised
                => (last.ret <=> /\ isfile(fs, TargetPath)
                                 /\ Passes(fs[TargetPath], last.args.s_hash, last.args.i_size))
           /\ (/\ AcqAt(last.log) # {}
               /\ last.args.src = "url"
               /\ Respond(last.net, RequestUrl(TargetUrl)).st = "http")
                => (~isfile(fs, TargetPath) /\ ~last.ret /\ ~last.raised)

C4_Witness ==
    /\ last.called
    /\ last.args.src = "url"
    /\ AcqAt(last.log) # {}
    /\ Respond(last.net, RequestUrl(TargetUrl)).st = "http"
    /\ ~last.ret
    /\ ~isfile(fs, TargetPath)

\* --------------------------------------------------- the pack specification
Names == <<"f1", "f2", "f3", "f4">>

Good == [hash |-> 1, size |-> 1]

Bad == [hash |-> MaxHash, size |-> 1]

\* the i-th artifact of a manifest: key "d/<name>", expected hash and size given
Art(i, sh) ==
    [key |-> <<"d", Names[i]>>, file |-> Names[i], path |-> sh.path, hash |-> sh.hash,
     size |-> 1, url |-> <<Names[i]>>, kind |-> sh.kind, type |-> sh.type, tags |-> sh.tags]

\* the manifests of at most MaxFiles artifacts over a set of shapes, each with the
\* state of the source of every artifact: "ok" (the expected content), "bad"
\* (another content), "gone" (HTTP error, or no such entry in the archive),
\* "conn" (URLError on connecting)
Manifests(shapes, states) ==
    UNION {[1..n -> shapes \X states] : n \in 0..MaxFiles}

FilesOf(m) == [i \in 1..Len(m) |-> Art(i, m[i][1])]

ZipPath == CacheRoot \o <<"pack.zip">>

NetOf(m) ==
    [remote |->
        [u \in {<<Names[i]>> : i \in 1..Len(m)} |->
            LET i == CHOOSE k \in 1..Len(m) : <<Names[k]>> = u
            IN  IF m[i][2] = "ok" THEN [st |-> "ok", body |-> Good]
                ELSE IF m[i][2] = "bad" THEN [st |-> "ok", body |-> Bad]
                ELSE IF m[i][2] = "conn" THEN [st |-> "conn", body |-> [hash |-> 0, size |-> 0]]
                ELSE HttpMissing],
     archives |->
        (ZipPath :>
            [k \in {<<"d", Names[i]>> : i \in {j \in 1..Len(m) : m[j][2] # "gone"}} |->
                LET i == CHOOSE j \in 1..Len(m) : <<"d", Names[j]>> = k
                IN  IF m[i][2] = "bad" THEN Bad ELSE Good])]

Dict == <<[name |-> "arcade", id |-> 1], [name |-> "util", id |-> 2]>>

Shapes(kinds, types, tagss, paths, hashes) ==
    [kind : kinds, type : types, tags : tagss, path : paths, hash : hashes]

\* a pack: the manifest m, its tag dictionary, the criteria and the flags
Pack(ptype, m, d_tags, l_kinds, l_types, l_tags, b_mist, sub, b_tg, b_ty, b_keep) ==
    [ptype |-> ptype, files |-> FilesOf(m), d_tags |-> d_tags, l_kinds |-> l_kinds,
     l_types |-> l_types, l_tags |-> l_tags, b_mist |-> b_mist, s_out_subpath |-> sub,
     b_taggroups |-> b_tg, b_typegroups |-> b_ty, b_keep |-> b_keep, args_keep |-> TRUE,
     b_force |-> FALSE,
     s_files_path |-> CacheRoot \o <<"files">>, s_zip_path |-> ZipPath, net |-> NetOf(m),
     status |-> [i \in 1..Len(m) |-> m[i][2]]]

AllShapes == Shapes({"", "a100t"}, {"bit", "zx3"}, {<<1>>, <<1, 2>>}, {<<>>, <<"a", "b">>}, {1})

\* selection inputs: kinds, types and tags of the artifacts against the criteria,
\* with and without a tag dictionary; every source is valid
InitSel ==
    \E pt \in {"zip", "files"}, d \in {<<>>, Dict},
       ks \in {{"a100t"}, {"a200t"}}, ts \in {{"bit"}, {"bit", "zx3"}},
       tg \in {{"arcade"}, {"util"}, {"arcade", "util"}} :
        \E m \in Manifests(Shapes({"", "a100t"}, {"bit", "zx3"}, {<<1>>, <<1, 2>>}, {<<>>}, {1}),
                           {"ok"}) :
            /\ pack = Pack(pt, m, d, ks, ts, tg, FALSE, "cores", FALSE, FALSE, TRUE)
            /\ fs = NoFs

\* destination inputs: declared paths, grouping flags, device mode and pack
\* subpath, the criteria fixed; every source is valid
InitDest ==
    \E pt \in {"zip", "files"}, mist \in BOOLEAN, sub \in {"cores", "roms"},
       btg \in BOOLEAN, bty \in BOOLEAN :
        \E m \in Manifests(AllShapes, {"ok"}) :
            /\ pack = Pack(pt, m, Dict, {"a100t"}, {"bit", "zx3"}, {"arcade", "util"},
                           mist, sub, btg, bty, TRUE)
            /\ fs = NoFs

\* inputs without a tag dictionary: declared paths, device mode and pack subpath
InitPlain ==
    \E pt \in {"zip", "files"}, mist \in BOOLEAN, sub \in {"cores", "roms"} :
        \E m \in Manifests(AllShapes, {"ok"}) :
            /\ pack = Pack(pt, m, <<>>, {"a200t"}, {"zx3"}, {"util"}, mist, sub, TRUE, TRUE, TRUE)
            /\ fs = NoFs

\* what a run may find on disk: nothing, or the output and the cache of an
\* earlier run (one deployed file that is no longer in the manifest, one cached
\* file with another content than expected)
StartFs ==
    {NoFs,
     (<<"SD", "cores", "old">> :> Good) @@ (<<"cache", "files", "f1">> :> Bad)}

\* failure inputs: the state of every artifact's source, checked and unchecked
\* hashes, the keep flag and whether the pack honours it, what is on disk
InitFail ==
    \E pt \in {"zip", "files"}, d \in {<<>>, Dict}, keep \in BOOLEAN, ak \in BOOLEAN,
       f \in StartFs :
        \E m \in Manifests(Shapes({"a100t"}, {"bit"}, {<<1>>}, {<<>>}, {0, 1}),
                           {"ok", "bad", "gone", "conn"}) :
            /\ pack = [Pack(pt, m, d, {"a100t"}, {"bit"}, {"arcade"}, FALSE, "cores",
                            FALSE, FALSE, keep) EXCEPT !.args_keep = ak]
            /\ fs = f

InitPack ==
    /\ InitSel \/ InitDest \/ InitPlain \/ InitFail
    /\ run = Idle
    /\ last = NoCall
    /\ streak = 0

Finish(r) ==
    /\ fs' = r.fs
    /\ run' = [pc |-> "done", ok |-> r.ok, raised |-> r.raised, log |-> r.log]
    /\ UNCHANGED <<pack, last, streak>>

\* main, lines 89-91: a zip pack is built from its archive
BuildZipPack ==
    /\ run.pc = "idle"
    /\ pack.ptype = "zip"
    /\ Finish(build_sd_fromzip(fs, pack))

\* main, lines 92-94: a files pack is cached, then copied
BuildFilesPack ==
    /\ run.pc = "idle"
    /\ pack.ptype = "files"
    /\ Finish(build_sd_files_fromdb(fs, pack))

NextPack == BuildZipPack \/ BuildFilesPack

SpecPack == InitPack /\ [][NextPack]_vars

\* ------------------------------------------------------ claims on the packs
Done == run.pc = "done"

Idx == 1..Len(pack.files)

\* the events of artifact i: the cache call of a files pack, and the deployment
\* (the copy of a files pack, the extraction to the output tree of a zip pack)
EnsureEv(i) ==
    {k \in 1..Len(run.log) : run.log[k].idx = i /\ run.log[k].op \in {"ensure", "obtain"}}

DeployEv(i) ==
    {k \in 1..Len(run.log) : run.log[k].idx = i /\ run.log[k].op \in {"copy", "obtain"}}

\* the requested tag names some tag identifier of the artifact maps to
MatchNames(a) ==
    {e.name : e \in {x \in {pack.d_tags[k] : k \in 1..Len(pack.d_tags)} :
                        x.name \in pack.l_tags /\ \E t \in 1..Len(a.tags) : a.tags[t] = x.id}}

\* artifact i was deployed: a deployment event succeeded and its file is in the
\* output tree with a content that passes the artifact's hash+size rule
Deployed(i) ==
    \E k \in DeployEv(i) :
        /\ run.log[k].ok
        /\ IsPrefix(OutRoot, run.log[k].path)
        /\ isfile(fs, run.log[k].path)
        /\ Passes(fs[run.log[k].path], pack.files[i].hash, pack.files[i].size)

AllSourcesOk == \A i \in Idx : pack.status[i] = "ok"

C6_SelectionExactness ==
    (Done /\ pack.d_tags # <<>>)
        => \A i \in Idx :
            pack.files[i].kind # ""
                => ((EnsureEv(i) # {} /\ DeployEv(i) # {})
                        <=> /\ pack.files[i].kind \in pack.l_kinds
                            /\ pack.files[i].type \in pack.l_types
                            /\ MatchNames(pack.files[i]) # {})

\* C7: with a tag dictionary, an artifact without a kind whose tag maps to a
\* requested name is ensured and deployed whatever kinds and types are
\* requested -- in zip packs and in files packs.
C7_PartialTagBypass ==
    (Done /\ pack.d_tags # <<>>)
        => \A i \in Idx :
            (pack.files[i].kind = "" /\ MatchNames(pack.files[i]) # {})
                => (EnsureEv(i) # {} /\ DeployEv(i) # {})

\* C8: without a tag dictionary every artifact of the manifest is ensured and
\* deployed (its source being valid), whatever its kind, type and tags and
\* whatever is requested.
C8_NoDictionaryPassThrough ==
    (Done /\ pack.d_tags = <<>> /\ AllSourcesOk)
        => /\ ~run.raised
           /\ \A i \in Idx : (\E k \in EnsureEv(i) : run.log[k].ok) /\ Deployed(i)

C8_Witness ==
    /\ Done
    /\ pack.d_tags = <<>>
    /\ pack.ptype = "files"
    /\ Len(pack.files) = 2
    /\ pack.files[1].kind = ""
    /\ pack.files[2].kind \notin pack.l_kinds
    /\ pack.files[2].type \notin pack.l_types
    /\ pack.files[2].path # <<>>
    /\ Deployed(1)
    /\ Deployed(2)

\* C9: with both grouping flags and no device mode, a selected fully tagged
\* artifact with path segments [a, b], type t and matching tag name n goes
\* to output_root/pack_subpath/t/a/b/n/file_name.
C9_GroupingComposition ==
    (Done /\ pack.d_tags # <<>> /\ pack.b_taggroups /\ pack.b_typegroups /\ ~pack.b_mist)
        => \A i \in Idx :
            (/\ FullyTagged(pack.files[i], pack)
             /\ pack.files[i].path = <<"a", "b">>
             /\ MatchNames(pack.files[i]) # {})
                => \E k \in DeployEv(i) : \E n \in MatchNames(pack.files[i]) :
                        run.log[k].path =
                            OutRoot \o <<pack.s_out_subpath, pack.files[i].type, "a", "b", n,
                                         pack.files[i].file>>

\* C10: with grouping by tag, a selected artifact with two or more tags that
\* map to requested names is deployed once into the subdirectory of each of
\* them, as <base>/<tag name>/<file name>.
C10_MultiTagDeployment ==
    (Done /\ pack.d_tags # <<>> /\ pack.b_taggroups)
        => \A i \in Idx :
            (FullyTagged(pack.files[i], pack) /\ Cardinality(MatchNames(pack.files[i])) >= 2)
                => \A n \in MatchNames(pack.files[i]) :
                        \E k \in DeployEv(i) :
                            LET p == run.log[k].path
                            IN  /\ Len(p) >= 2
                                /\ p[Len(p)] = pack.files[i].file
                                /\ p[Len(p) - 1] = n

\* the base directory the claim gives artifact i
MistCase(i) == pack.b_mist /\ pack.s_out_subpath = "cores" /\ pack.files[i].type = "bit"

\* C11: every deployment of an artifact goes under output_root/mist if and only
\* if device mode is active, the pack subpath is 'cores' and the artifact's
\* type is 'bit'; every other deployment goes under output_root/pack_subpath.
C11_DeviceModeRedirection ==
    Done => \A i \in Idx : \A k \in DeployEv(i) :
                /\ IsPrefix(OutRoot \o <<"mist">>, run.log[k].path) <=> MistCase(i)
                /\ IsPrefix(OutRoot \o <<pack.s_out_subpath>>, run.log[k].path) <=> ~MistCase(i)

C11_Witness ==
    /\ Done
    /\ pack.b_mist
    /\ pack.s_out_subpath = "cores"
    /\ Len(pack.files) = 2
    /\ pack.files[1].type = "bit"
    /\ pack.files[2].type = "zx3"
    /\ Deployed(1)
    /\ Deployed(2)
    /\ \E k \in DeployEv(1) : IsPrefix(OutRoot \o <<"mist">>, run.log[k].path)
    /\ \E k \in DeployEv(2) : IsPrefix(OutRoot \o <<"cores">>, run.log[k].path)

\* the paths of the files this run deployed
DeployedPaths == {run.log[k].path : k \in {j \in 1..Len(run.log) :
                                              run.log[j].op \in {"copy", "obtain"} /\ run.log[j].ok}}

\* C12: when the keep flag is not set, a zip or files pack empties
\* output_root/pack_subpath before it writes, so after the pack the subtree
\* holds only files deployed in this run.
C12_FullReplace ==
    (Done /\ ~run.raised /\ ~pack.b_keep)
        => \A p \in DOMAIN fs :
                IsPrefix(OutRoot \o <<pack.s_out_subpath>>, p) => p \in DeployedPaths

\* artifact i failed: one of its cache or deployment steps reported failure
Failed(i) == \E k \in 1..Len(run.log) : run.log[k].idx = i /\ ~run.log[k].ok

\* artifact i is selected by the criteria
Selected(i) ==
    \/ pack.d_tags = <<>>
    \/ /\ FullyTagged(pack.files[i], pack) \/ (pack.ptype = "files" /\ pack.files[i].kind = "")
       /\ MatchNames(pack.files[i]) # {}

\* C13: a failed artifact does not stop the pack -- every selected artifact
\* after it is still processed -- and the pack's result is failure if any
\* artifact failed, success only if every selected artifact was deployed.
C13_StickyFailure ==
    Done => /\ \A i \in Idx : Failed(i) =>
                  /\ ~run.raised
                  /\ ~run.ok
                  /\ \A j \in Idx : (j > i /\ Selected(j)) => DeployEv(j) # {}
            /\ (run.ok /\ ~run.raised) => \A i \in Idx : Selected(i) => Deployed(i)

\* C14: in a files pack an artifact whose cached file fails the verification
\* after the acquisition is not copied to the output tree, and the pack's
\* result is failure.
C14_UnverifiedNeverDeployed ==
    (Done /\ pack.ptype = "files")
        => \A k \in 1..Len(run.log) :
                (run.log[k].op = "ensure" /\ run.log[k].acq /\ ~run.log[k].ok)
                    => /\ ~run.ok
                       /\ \A k2 \in DeployEv(run.log[k].idx) : ~run.log[k2].ok

\* C15: an entry key that is not in the archive makes chk_or_obtain return
\* failure for that artifact; nothing is raised and the artifacts after it are
\* still processed.
C15_MissingEntryPerArtifact ==
    (Done /\ pack.ptype = "zip")
        => \A i \in Idx :
                (pack.status[i] = "gone" /\ EnsureEv(i) # {})
                    => /\ ~run.raised
                       /\ \A j \in Idx : (j > i /\ Selected(j)) => EnsureEv(j) # {}

\* C22: with grouping by type, every deployment of a selected fully tagged
\* artifact has the type segment in its destination unless device mode is
\* active, the pack subpath is 'cores' and the type is 'bit'; an artifact that
\* is not redirected to the mist subtree always gets its type segment.
C22_TypeGroupingExemption ==
    (Done /\ pack.d_tags # <<>> /\ pack.b_typegroups)
        => \A i \in Idx :
            FullyTagged(pack.files[i], pack)
                => \A k \in DeployEv(i) :
                    (\E n \in 1..Len(run.log[k].path) : run.log[k].path[n] = pack.files[i].type)
                        <=> ~MistCase(i)

CacheEv(i) == {k \in 1..Len(run.log) : run.log[k].idx = i /\ run.log[k].op = "ensure"}

CopyEv(i) == {k \in 1..Len(run.log) : run.log[k].idx = i /\ run.log[k].op = "copy"}

\* C24: in a files pack that ran to its end, the artifacts build_sd_files
\* tries to copy are the artifacts chk_files_cache ensured, and every copy
\* reads the cache path at which its artifact was ensured.
C24_CacheDeployConsistency ==
    (Done /\ pack.ptype = "files" /\ ~run.raised)
        => \A i \in Idx :
            /\ CopyEv(i) # {} <=> CacheEv(i) # {}
            /\ \A k \in CopyEv(i) :
                /\ run.log[k].src = CachePath(pack.files[i], pack)
                /\ \E e \in CacheEv(i) : run.log[e].path = run.log[k].src

\* ------------------------------------------------------------------ load_db
\* What a file of the db directory holds is read off its content: a content of
\* size 1 is a zip archive (is_zipfile), and an archive of hash 1 has an entry
\* with the name of the manifest; every plain file parses as a manifest.
MainDb == "zx3_main_db.json"

DbNames == {MainDb, "p1.json", "p2.json", "p3.json", "p4.json", "mra_db.json", "cores_db.json"}

\* s_name + '.zip'
ZipName(s_name) ==
    CASE s_name = MainDb -> "zx3_main_db.json.zip"
      [] s_name = "p1.json" -> "p1.json.zip"
      [] s_name = "p2.json" -> "p2.json.zip"
      [] s_name = "p3.json" -> "p3.json.zip"
      [] s_name = "p4.json" -> "p4.json.zip"
      [] s_name = "mra_db.json" -> "mra_db.json.zip"
      [] s_name = "cores_db.json" -> "cores_db.json.zip"

DbDir == CacheRoot \o <<"db">>

is_zipfile(f, p) == isfile(f, p) /\ f[p].size = 1

\* z_handle.namelist() has s_name
HasEntry(c) == c.hash = 1

\* urllib.parse.urljoin of a base ending with '/' and a file name
urljoin(s_urlbase, s_zipname) == Append(s_urlbase, s_zipname)

\* the manifest load_db returns: where it was read (a plain file, an archive
\* entry, nowhere: the empty dictionary) and the content of the file read
EmptyDb == [src |-> "none", doc |-> [hash |-> 0, size |-> 0]]

\* variant: the archive is preferred to the plain file
ReadDb_ZipFirst(f, s_json, s_jsonzip) ==
    IF is_zipfile(f, s_jsonzip) /\ HasEntry(f[s_jsonzip])
    THEN [src |-> "zip", doc |-> f[s_jsonzip]]
    ELSE IF isfile(f, s_json) THEN [src |-> "plain", doc |-> f[s_json]]
    ELSE EmptyDb

\* lines 421-438
ReadDb(f, s_json, s_jsonzip) ==
    IF isfile(f, s_json) THEN [src |-> "plain", doc |-> f[s_json]]
    ELSE IF is_zipfile(f, s_jsonzip)
    THEN IF HasEntry(f[s_jsonzip]) THEN [src |-> "zip", doc |-> f[s_jsonzip]] ELSE EmptyDb
    ELSE EmptyDb

\* lines 407-438
load_db(f, s_name, s_urlbase, s_hash, i_size, b_force, net) ==
    LET s_json == Append(DbDir, s_name)
        s_jsonzip == Append(DbDir, ZipName(s_name))
        f1 == IF b_force /\ isfile(f, s_jsonzip) THEN remove(f, s_jsonzip) ELSE f
        lg1 == IF f1 # f THEN <<Ev("remove", s_jsonzip)>> ELSE <<>>
        r == IF ~isfile(f1, s_json)
             THEN chk_or_obtain(f1, s_jsonzip, s_hash, i_size,
                                urljoin(s_urlbase, ZipName(s_name)), <<>>, <<>>, FALSE, net)
             ELSE [fs |-> f1, ok |-> TRUE, raised |-> FALSE, log |-> <<>>]
    IN  [fs |-> r.fs, raised |-> r.raised, log |-> lg1 \o r.log,
         db |-> IF r.raised THEN EmptyDb ELSE ReadDb(r.fs, s_json, s_jsonzip)]

\* --------------------------------------------- the manifest specification
DbUrlBase == <<"bd">>

DbJson == Append(DbDir, "p1.json")

DbJsonZip == Append(DbDir, ZipName("p1.json"))

DbArgs == [s_hash : {0, 1}, i_size : {0, 1}, b_force : BOOLEAN]

\* what the URL of the archive serves
DbNets ==
    {[remote |-> (urljoin(DbUrlBase, ZipName("p1.json")) :> r), archives |-> <<>>] :
        r \in [st : {"ok"}, body : Contents] \cup {HttpMissing}}

InitDb ==
    /\ fs = NoFs
    /\ last = NoCall
    /\ streak = 0
    /\ pack = NoPack
    /\ run = Idle

\* one call load_db(cache_root, 'p1.json', ...) under some state of the network
LoadDb ==
    \E args \in DbArgs : \E net \in DbNets :
        LET r == load_db(fs, "p1.json", DbUrlBase, args.s_hash, args.i_size, args.b_force, net)
        IN  /\ fs' = r.fs
            /\ last' = [called |-> TRUE, args |-> args, net |-> net, pre |-> fs, db |-> r.db,
                        raised |-> r.raised, log |-> r.log]
            /\ UNCHANGED <<streak, pack, run>>

\* between two calls the plain file or the archive is written or deleted
TamperDb ==
    /\ \E p \in {DbJson, DbJsonZip} :
        \/ \E c \in Contents : fs' = WriteFile(fs, p, c)
        \/ fs' = remove(fs, p)
    /\ last' = NoCall
    /\ UNCHANGED <<streak, pack, run>>

NextDb == LoadDb \/ TamperDb

SpecDb == InitDb /\ [][NextDb]_vars

\* C18: if the plain file <cache_root>/db/<name> exists, load_db returns its
\* content without fetching and without reading the archive; otherwise it
\* ensures <name>.zip through chk_or_obtain and returns the archive's entry
\* <name>; with neither a plain file nor such an entry (archive absent, not a
\* zip, no such entry) it returns the empty manifest and raises nothing.
C18_LoadResolution ==
    last.called
        => /\ ~last.raised
           /\ isfile(last.pre, DbJson)
                => /\ last.db = [src |-> "plain", doc |-> last.pre[DbJson]]
                   /\ AcqAt(last.log) = {}
                   /\ \A k \in 1..Len(last.log) : last.log[k].op # "verify"
           /\ ~isfile(last.pre, DbJson)
                => /\ \E k \in 1..Len(last.log) : last.log[k] = Ev("verify", DbJsonZip)
                   /\ IF isfile(fs, DbJsonZip) /\ fs[DbJsonZip].size = 1 /\ fs[DbJsonZip].hash = 1
                      THEN last.db = [src |-> "zip", doc |-> fs[DbJsonZip]]
                      ELSE last.db = EmptyDb

\* the plain file wins over an archive that holds the entry
C18_Witness ==
    /\ last.called
    /\ isfile(last.pre, DbJson)
    /\ is_zipfile(last.pre, DbJsonZip)
    /\ HasEntry(last.pre[DbJsonZip])
    /\ last.pre[DbJsonZip] # last.pre[DbJson]
    /\ last.db.src = "plain"

\* the archive is fetched and its entry returned
C18_WitnessZip ==
    /\ last.called
    /\ ~isfile(last.pre, DbJson)
    /\ AcqAt(last.log) # {}
    /\ last.db.src = "zip"

\* neither: the archive is there but is no zip
C18_WitnessNone ==
    /\ last.called
    /\ ~isfile(last.pre, DbJson)
    /\ isfile(fs, DbJsonZip)
    /\ last.db = EmptyDb

\* ------------------------------------------------------------- the run: main
\* The inputs of a run (variable pack, ptype "run"): the requested tags, the
\* packs of the root manifest in order, and the state of every source.  A pack
\* of the root manifest is [type, tags, sub, content, art]: the state of the
\* source of its sub-manifest, of its content archive (zip packs) and of its
\* one artifact.  Pack k uses the manifest PackDb[k], the content archive
\* ContentName[k], the cache directory FilesDir[k] and the output path
\* OutPath[k]; its artifact is fully tagged with tag 1 ('arcade').
MaxPacks == 2

MaxRuns == 2

RootDict ==
    <<[name |-> "arcade", id |-> 1], [name |-> "console", id |-> 1], [name |-> "util", id |-> 2]>>

PackDb == <<"p1.json", "p2.json", "p3.json", "p4.json">>

ContentName == <<"c1.zip", "c2.zip", "c3.zip", "c4.zip">>

FilesDir == <<"files1", "files2", "files3", "files4">>

OutPath == <<"cores", "roms", "docs", "bin">>

RunShape == [kind |-> "a200t", type |-> "zx3", tags |-> <<1>>, path |-> <<>>, hash |-> 1]

MraBinPath == CacheRoot \o <<"bin", "mra">>

MraBinUrl == <<"mra-tools-c", "linux", "mra">>

Served(st) ==
    IF st = "ok" THEN [st |-> "ok", body |-> Good]
    ELSE IF st = "bad" THEN [st |-> "ok", body |-> Bad]
    ELSE HttpMissing

\* what the network serves for pack k, and what its content archive holds
RemoteOfPack(p, k) ==
    (urljoin(DbUrlBase, ZipName(PackDb[k])) :> Served(p.sub))
        @@ (<<ContentName[k]>> :> Served(p.content))
        @@ (<<Names[k]>> :> Served(p.art))

ArchiveOfPack(p, k) ==
    (CacheRoot \o <<ContentName[k]>>) :>
        (IF p.art = "gone" THEN <<>>
         ELSE (<<"d", Names[k]>> :> (IF p.art = "bad" THEN Bad ELSE Good)))

RECURSIVE RemoteOf(_, _)
RemoteOf(packs, k) ==
    IF k > Len(packs) THEN <<>> ELSE RemoteOfPack(packs[k], k) @@ RemoteOf(packs, k + 1)

RECURSIVE ArchivesOf(_, _)
ArchivesOf(packs, k) ==
    IF k > Len(packs) THEN <<>> ELSE ArchiveOfPack(packs[k], k) @@ ArchivesOf(packs, k + 1)

RunNet(root, packs) ==
    [remote |-> (urljoin(DbUrlBase, ZipName(MainDb)) :> Served(root))
                    @@ (urljoin(DbUrlBase, ZipName("mra_db.json")) :> Served("ok"))
                    @@ (urljoin(DbUrlBase, ZipName("cores_db.json")) :> Served("ok"))
                    @@ (MraBinUrl :> Served("ok"))
                    @@ RemoteOf(packs, 1),
     archives |-> ArchivesOf(packs, 1)]

\* the arguments main hands to the build of pack k
CfgOf(w, k, keep) ==
    [ptype |-> w.packs[k].type, files |-> <<Art(k, RunShape)>>, d_tags |-> <<Dict[1]>>,
     l_kinds |-> {"a200t"}, l_types |-> {"zx3"}, l_tags |-> w.l_tags, b_mist |-> FALSE,
     s_out_subpath |-> OutPath[k], b_taggroups |-> FALSE, b_typegroups |-> FALSE,
     b_keep |-> keep, args_keep |-> TRUE, b_force |-> FALSE,
     s_files_path |-> CacheRoot \o <<FilesDir[k]>>,
     s_zip_path |-> CacheRoot \o <<ContentName[k]>>, net |-> w.net,
     status |-> <<w.packs[k].art>>]

\* an event of a run: a network fetch, a deployment, the result of pack k
RunEv(op, k, p, ok) == [op |-> op, k |-> k, path |-> p, ok |-> ok]

\* the fetches of a chk_or_obtain or load_db call
FetchesOf(lg, k) ==
    LET sel == SelectSeq(lg, LAMBDA e : e.op = "fetch")
    IN  [i \in 1..Len(sel) |-> RunEv("fetch", k, sel[i].path, TRUE)]

\* the events of a pack build
BuildEvs(lg, k) ==
    [i \in 1..Len(lg) |->
        RunEv(IF lg[i].op = "ensure" THEN (IF lg[i].acq THEN "fetch" ELSE "cached") ELSE lg[i].op,
              k, lg[i].path, lg[i].ok)]

\* the outcome of the build of a pack: it returned b_ok ("ret"), it called
\* sys.exit(2) ("exit"), or an exception was not caught ("raised")
Outcome(f, how, ok, lg) == [fs |-> f, how |-> how, ok |-> ok, log |-> lg]

\* lines 451-483
build_sd_zip_fromdb(f, k, c, net) ==
    LET ld == load_db(f, PackDb[k], DbUrlBase, Good.hash, Good.size, FALSE, net)
        lg1 == FetchesOf(ld.log, k)
    IN  IF ld.raised THEN Outcome(ld.fs, "raised", FALSE, lg1)
        \* line 466: d_db['base_hash'] of an empty manifest is a KeyError
        ELSE IF ld.db = EmptyDb THEN Outcome(ld.fs, "raised", FALSE, lg1)
        ELSE LET co == chk_or_obtain(ld.fs, c.s_zip_path, Good.hash, Good.size,
                                     <<ContentName[k]>>, <<>>, <<>>, FALSE, net)
                 lg2 == lg1 \o FetchesOf(co.log, k)
             IN  IF co.raised THEN Outcome(co.fs, "raised", FALSE, lg2)
                 ELSE IF ~co.ok THEN Outcome(co.fs, "exit", FALSE, lg2)
                 ELSE LET b == build_sd_fromzip(co.fs, c)
                      IN  Outcome(b.fs, IF b.raised THEN "raised" ELSE "ret", b.ok,
                                  lg2 \o BuildEvs(b.log, k))

\* lines 496-527
FilesFromDb(f, k, c, net) ==
    LET ld == load_db(f, PackDb[k], DbUrlBase, Good.hash, Good.size, FALSE, net)
        lg1 == FetchesOf(ld.log, k)
    IN  IF ld.raised THEN Outcome(ld.fs, "raised", FALSE, lg1)
        ELSE IF ld.db = EmptyDb THEN Outcome(ld.fs, "exit", FALSE, lg1)
        ELSE LET b == build_sd_files_fromdb(ld.fs, c)
             IN  Outcome(b.fs, IF b.raised THEN "raised" ELSE "ret", b.ok,
                         lg1 \o BuildEvs(b.log, k))

\* lines 985-1004: the converter binary is downloaded when it is not cached
chk_or_download_mrabin(f, net) ==
    IF isfile(f, MraBinPath)
    THEN [fs |-> f, ok |-> TRUE, raised |-> FALSE, log |-> <<>>]
    ELSE chk_or_obtain(f, MraBinPath, 0, 0, MraBinUrl, <<>>, <<>>, FALSE, net)

\* lines 614-623: one manifest of an arcade pack
ArcadeDb(st, s_name, k, net) ==
    LET ld == load_db(st.fs, s_name, DbUrlBase, Good.hash, Good.size, FALSE, net)
    IN  Outcome(ld.fs,
                IF ld.raised THEN "raised" ELSE IF ld.db = EmptyDb THEN "exit" ELSE "ret",
                FALSE,
                st.log \o FetchesOf(ld.log, k)
                    \o <<RunEv("load", k, <<s_name>>, ld.db # EmptyDb)>>)

\* lines 613-623: the three manifests of an arcade pack, in order
RECURSIVE ArcadeDbs(_, _, _, _)
ArcadeDbs(st, names, k, net) ==
    IF names = <<>> THEN st
    ELSE CHOOSE o \in {IF s.how # "ret" THEN s
                       ELSE ArcadeDbs(ArcadeDb(s, Head(names), k, net), Tail(names), k, net) :
                            s \in {st}} : TRUE

\* ------------------------------------------------------- arcade synthesis
\* A name is the sequence of its tokens: the tag 'jtgngarcade' is
\* <<"jt", "gng", "arcade">>, the descriptor 'gng2.mra' is <<"gng", "2", ".mra">>;
\* '' is <<>>.
\* ''.join(s.split(x)): every occurrence of x goes
Without(name, x) == SelectSeq(name, LAMBDA t : t # x)

\* str.upper, token by token
UpperTok(t) ==
    CASE t = "jt" -> "JT"
      [] t = "gng" -> "GNG"
      [] t = "sf" -> "SF"
      [] t = "GnG" -> "GNG"
      [] t = ".arc" -> ".ARC"
      [] OTHER -> t

upper(name) == [i \in 1..Len(name) |-> UpperTok(name[i])]

\* str.startswith
startswith(name, prefix) == IsPrefix(prefix, name)

\* one call of the converter: for which core and descriptor, the directory -O
\* (s_out_path, then the subdirectory or <<>>), the name -a (<<>>: the
\* converter's default naming) and the descriptor
Inv(ci, j, sub, name, mra) == [core |-> ci, j |-> j, sub |-> sub, name |-> name, mra |-> mra]

\* line 939: default_mra != '' and s_submra.startswith(default_mra)
IsDefaultMra(s_submra, default_mra) == default_mra # <<>> /\ startswith(s_submra, default_mra)

\* lines 933-963: the calls for descriptor j of a core
ArcDescriptor(core, ci, j) ==
    LET s_basename_arc == Without(core.tag, "arcade")
        s_subdir_arc == IF Len(core.l_mra) > 1 THEN upper(Without(s_basename_arc, "jt")) ELSE <<>>
        s_submra == core.l_mra[j]
        s_arc_name == IF core.default_arc # <<>>
                      THEN core.default_arc \o <<".arc">>
                      ELSE s_basename_arc \o <<".arc">>
    IN  (IF s_subdir_arc = <<>> \/ IsDefaultMra(s_submra, core.default_mra)
         THEN <<Inv(ci, j, <<>>, upper(s_arc_name), s_submra)>>
         ELSE <<>>)
        \o <<Inv(ci, j, s_subdir_arc, <<>>, s_submra)>>

RECURSIVE ArcDescriptors(_, _, _)
ArcDescriptors(core, ci, j) ==
    IF j > Len(core.l_mra) THEN <<>>
    ELSE ArcDescriptor(core, ci, j) \o ArcDescriptors(core, ci, j + 1)

RECURSIVE ArcCores(_, _)
ArcCores(cores, ci) ==
    IF ci > Len(cores) THEN <<>>
    ELSE ArcDescriptors(cores[ci], ci, 1) \o ArcCores(cores, ci + 1)

\* variant: the converter is called whether or not it was obtained
build_arc_files_Unguarded(f, cores, net) ==
    LET bin == chk_or_download_mrabin(f, net)
    IN  [fs |-> bin.fs, raised |-> bin.raised, bin |-> bin.ok /\ ~bin.raised, binlog |-> bin.log,
         log |-> ArcCores(cores, 1)]

\* lines 922-963
build_arc_files(f, cores, net) ==
    LET bin == chk_or_download_mrabin(f, net)
    IN  [fs |-> bin.fs, raised |-> bin.raised, bin |-> bin.ok /\ ~bin.raised, binlog |-> bin.log,
         log |-> IF bin.ok /\ ~bin.raised THEN ArcCores(cores, 1) ELSE <<>>]

\* ------------------------------------------------------- the arcade pack
\* The manifests of an arcade pack (arc): roms, the records of the ROM-archive
\* manifest [name, tags, st]; rom_dict, its tag dictionary; mras, the records
\* of the descriptor manifest [key, name, tags, st] (key: the directory of the
\* dictionary key, name: the file name as tokens); mra_dict, its tag
\* dictionary; cores, the records of the core manifest [name, default_mra,
\* default_arc].  st is the state of the record's URL.
NoArcade == [roms |-> <<>>, rom_dict |-> <<>>, mras |-> <<>>, mra_dict |-> <<>>, cores |-> <<>>]

CoreNames(arc) == {arc.cores[i].name : i \in 1..Len(arc.cores)}

RomPath(rom) == CacheRoot \o <<"roms", rom.name>>

\* d_files[s_file]['url']
RomUrl(rom) == <<rom.name>>

\* the tokens of a descriptor's name are the last segments of its path
MraPath(mra) == CacheRoot \o <<"mra">> \o mra.name

MraUrl(mra) == <<"mra_url">> \o mra.name

\* one chk_or_obtain of a cache phase (job: what is ensured, where, from
\* which URL): its fetch, if any, then its result
Job(op, p, url) == [op |-> op, path |-> p, url |-> url]

Ensure(st, job, k, net) ==
    LET r == chk_or_obtain(st.fs, job.path, Good.hash, Good.size, job.url, <<>>, <<>>, FALSE, net)
    IN  Outcome(r.fs, IF r.raised THEN "raised" ELSE st.how, st.ok,
                st.log \o FetchesOf(r.log, k) \o <<RunEv(job.op, k, job.path, r.ok)>>)

\* the calls in order, up to an uncaught exception; every step works on the
\* value of the state before it
RECURSIVE EnsureAll(_, _, _, _)
EnsureAll(st, jobs, k, net) ==
    IF jobs = <<>> THEN st
    ELSE CHOOSE o \in {IF s.how # "ret" THEN s
                       ELSE EnsureAll(Ensure(s, Head(jobs), k, net), Tail(jobs), k, net) :
                            s \in {st}} : TRUE

Repeat(job, n) == [x \in 1..n |-> job]

\* lines 693-702: a ROM archive is ensured once for every tag of it whose
\* dictionary name is a key of the core manifest
RECURSIVE RomJobs(_, _)
RomJobs(arc, i) ==
    IF i > Len(arc.roms) THEN <<>>
    ELSE Repeat(Job("rom", RomPath(arc.roms[i]), RomUrl(arc.roms[i])),
                Len(TagMatches(arc.roms[i].tags, arc.rom_dict, CoreNames(arc))))
            \o RomJobs(arc, i + 1)

\* lines 690-705
chk_zip_cache(st, arc, k, net) == EnsureAll(st, RomJobs(arc, 1), k, net)

\* lines 890-893: the dictionary names of the tags of a descriptor that, with
\* 'arcade' removed, are keys of the core manifest -- in loop order
RECURSIVE MraMatches(_, _)
MraMatches(tags, arc) ==
    IF tags = <<>> THEN <<>>
    ELSE LET hits == SelectSeq(arc.mra_dict,
                               LAMBDA e : e.id = Head(tags)
                                          /\ Without(e.name, "arcade") \in CoreNames(arc))
         IN  [n \in 1..Len(hits) |-> hits[n].name] \o MraMatches(Tail(tags), arc)

\* lines 888-889: s_name.endswith('.mra') and not '_alternatives' in s_file
IsDescriptor(mra) == mra.name[Len(mra.name)] = ".mra" /\ mra.key # "_alternatives"

\* the tags under which descriptor i is registered and ensured
MraHits(arc, i) ==
    IF IsDescriptor(arc.mras[i]) THEN MraMatches(arc.mras[i].tags, arc) ELSE <<>>

\* lines 897-901
RECURSIVE MraJobs(_, _)
MraJobs(arc, i) ==
    IF i > Len(arc.mras) THEN <<>>
    ELSE Repeat(Job("mra", MraPath(arc.mras[i]), MraUrl(arc.mras[i])), Len(MraHits(arc, i)))
            \o MraJobs(arc, i + 1)

\* lines 894-896: d_mras[s_tagitem].append(s_name); d_mras is the sequence of
\* its [tag, l_mra] items in insertion order
AddMra(d_mras, tag, name) ==
    IF \E n \in 1..Len(d_mras) : d_mras[n].tag = tag
    THEN [n \in 1..Len(d_mras) |->
            IF d_mras[n].tag = tag
            THEN [d_mras[n] EXCEPT !.l_mra = Append(d_mras[n].l_mra, name)]
            ELSE d_mras[n]]
    ELSE Append(d_mras, [tag |-> tag, l_mra |-> <<name>>])

RECURSIVE AddMras(_, _, _)
AddMras(d_mras, hits, name) ==
    IF hits = <<>> THEN d_mras
    ELSE CHOOSE o \in {AddMras(AddMra(d, Head(hits), name), Tail(hits), name) :
                            d \in {d_mras}} : TRUE

\* lines 885-906: the dictionary chk_mra_cache returns
RECURSIVE MraGroups(_, _, _)
MraGroups(d_mras, arc, i) ==
    IF i > Len(arc.mras) THEN d_mras
    ELSE MraGroups(AddMras(d_mras, MraHits(arc, i), arc.mras[i].name), arc, i + 1)

\* lines 885-906: the calls chk_mra_cache makes
chk_mra_cache(st, arc, k, net) == EnsureAll(st, MraJobs(arc, 1), k, net)

\* d_cores_db[s_basename_arc] for the items of d_mras
CoresOf(d_mras, arc) ==
    [n \in 1..Len(d_mras) |->
        LET c == CHOOSE x \in {arc.cores[i] : i \in 1..Len(arc.cores)} :
                    x.name = Without(d_mras[n].tag, "arcade")
        IN  [tag |-> d_mras[n].tag, l_mra |-> d_mras[n].l_mra,
             default_mra |-> c.default_mra, default_arc |-> c.default_arc]]

\* the converter calls as events of the run
InvEvs(lg, k) ==
    [n \in 1..Len(lg) |-> RunEv("inv", k, OutRoot \o <<"JOTEGO">> \o lg[n].sub, TRUE)]

\* lines 635-638: build_arc_files after the two caches (st)
ArcFiles(st, k, arc, net) ==
    IF st.how # "ret" THEN st
    ELSE LET b == build_arc_files(st.fs, CoresOf(MraGroups(<<>>, arc, 1), arc), net)
         IN  Outcome(b.fs, IF b.raised THEN "raised" ELSE "ret", TRUE,
                     st.log \o FetchesOf(b.binlog, k)
                         \o <<RunEv("bin", k, MraBinPath, b.bin)>> \o InvEvs(b.log, k))

\* lines 608-640
build_arcade_sd_fromdb(f, k, arc, net) ==
    CHOOSE o \in {ArcFiles(st, k, arc, net) :
                    st \in {chk_mra_cache(
                                chk_zip_cache(
                                    ArcadeDbs(Outcome(f, "ret", FALSE, <<>>),
                                              <<PackDb[k], "mra_db.json", "cores_db.json">>,
                                              k, net),
                                    arc, k, net),
                                arc, k, net)}} : TRUE

\* ------------------------------------------------------------------- main
\* lines 79-85
Included(p, l_tags) ==
    \/ p.tags = <<>>
    \/ \E i \in 1..Len(RootDict) :
        /\ \E t \in 1..Len(p.tags) : p.tags[t] = RootDict[i].id
        /\ RootDict[i].name \in l_tags

\* variant: the main manifest is downloaded again on every run
MainForce_Always(keep) == TRUE

\* line 71: b_force = not arg_data['keep']
MainForce(keep) == ~keep

\* the shapes of the packs of a root manifest
RunPacks ==
    {[type |-> "zip", tags |-> <<1>>, sub |-> x[1], content |-> x[2], art |-> x[3]] :
        x \in {<<"gone", "ok", "ok">>, <<"ok", "gone", "ok">>, <<"ok", "ok", "ok">>,
               <<"ok", "ok", "bad">>, <<"ok", "ok", "gone">>}}
    \cup {[type |-> "files", tags |-> <<1>>, sub |-> x[1], content |-> "ok", art |-> x[2]] :
        x \in {<<"gone", "ok">>, <<"ok", "ok">>, <<"ok", "gone">>}}
    \cup {[type |-> "arcade", tags |-> <<1>>, sub |-> x, content |-> "ok", art |-> "ok"] :
        x \in {"gone", "ok"}}
    \cup {[type |-> ty, tags |-> tg, sub |-> "ok", content |-> "ok", art |-> "ok"] :
        ty \in {"zip", "files", "arcade"}, tg \in {<<>>, <<2>>}}

StartRun(keep, n, prev) ==
    [pc |-> "start", k |-> 0, keep |-> keep, n |-> n, log |-> <<>>, prev |-> prev, code |-> 0]

InitRun ==
    /\ \E root \in {"ok", "gone"}, tg \in {{"arcade"}, {"console"}}, keep \in BOOLEAN :
        \E ps \in UNION {[1..n -> RunPacks] : n \in 0..MaxPacks} :
            /\ pack = [ptype |-> "run", l_tags |-> tg, packs |-> ps, root |-> root,
                       clean_sd |-> FALSE, net |-> RunNet(root, ps)]
            /\ run = StartRun(keep, 1, <<>>)
    /\ fs = NoFs
    /\ last = NoCall
    /\ streak = 0

\* main, lines 61-74
LoadMainDb ==
    /\ run.pc = "start"
    /\ LET f0 == IF pack.clean_sd THEN rmtree(fs, OutRoot) ELSE fs
           ld == load_db(f0, MainDb, DbUrlBase, 0, 0, MainForce(run.keep), pack.net)
       IN  /\ fs' = ld.fs
           /\ run' = [run EXCEPT !.log = FetchesOf(ld.log, 0),
                                 !.pc = IF ld.raised THEN "raised"
                                        ELSE IF ld.db = EmptyDb THEN "exit" ELSE "packs",
                                 !.code = IF ld.raised THEN 1 ELSE IF ld.db = EmptyDb THEN 2 ELSE 0,
                                 !.k = 1]
    /\ UNCHANGED <<pack, last, streak>>

AtPack == run.pc = "packs" /\ run.k <= Len(pack.packs)

\* main, lines 77-87: a pack whose tags are not requested is passed over
SkipPack ==
    /\ AtPack
    /\ ~Included(pack.packs[run.k], pack.l_tags)
    /\ run' = [run EXCEPT !.k = run.k + 1]
    /\ UNCHANGED <<fs, pack, last, streak>>

\* main, lines 88-99: what follows the build of pack k
After(o) ==
    /\ fs' = o.fs
    /\ run' = [run EXCEPT
                !.log = run.log \o o.log
                            \o (IF o.how = "ret" THEN <<RunEv("pack", run.k, <<>>, o.ok)>> ELSE <<>>),
                !.pc = IF o.how = "ret" THEN "packs" ELSE o.how,
                !.code = IF o.how = "exit" THEN 2 ELSE IF o.how = "raised" THEN 1 ELSE 0,
                !.k = IF o.how = "ret" THEN run.k + 1 ELSE run.k]
    /\ UNCHANGED <<pack, last, streak>>

\* main, lines 89-91
RunZipPack ==
    /\ AtPack
    /\ Included(pack.packs[run.k], pack.l_tags)
    /\ pack.packs[run.k].type = "zip"
    /\ After(build_sd_zip_fromdb(fs, run.k, CfgOf(pack, run.k, run.keep), pack.net))

\* main, lines 92-94
RunFilesPack ==
    /\ AtPack
    /\ Included(pack.packs[run.k], pack.l_tags)
    /\ pack.packs[run.k].type = "files"
    /\ After(FilesFromDb(fs, run.k, CfgOf(pack, run.k, run.keep), pack.net))

\* main, lines 95-97
RunArcadePack ==
    /\ AtPack
    /\ Included(pack.packs[run.k], pack.l_tags)
    /\ pack.packs[run.k].type = "arcade"
    /\ After(build_arcade_sd_fromdb(fs, run.k, NoArcade, pack.net))

\* main, lines 101-119: the loop is over, the run ends normally
EndRun ==
    /\ run.pc = "packs"
    /\ run.k > Len(pack.packs)
    /\ run' = [run EXCEPT !.pc = "done"]
    /\ UNCHANGED <<fs, pack, last, streak>>

\* the program is started again with the same inputs and keep set
Rerun ==
    /\ run.pc = "done"
    /\ run.n < MaxRuns
    /\ run' = StartRun(TRUE, run.n + 1, run.log)
    /\ UNCHANGED <<fs, pack, last, streak>>

NextRun ==
    \/ LoadMainDb
    \/ SkipPack
    \/ RunZipPack
    \/ RunFilesPack
    \/ RunArcadePack
    \/ EndRun
    \/ Rerun

SpecRun == InitRun /\ [][NextRun]_vars

\* -------------------------------------------------------- claims on the run
IsRun == pack.ptype = "run"

PackIdx == 1..Len(pack.packs)

\* the build of pack k returned a result
Processed(k) == \E i \in 1..Len(run.log) : run.log[i].op = "pack" /\ run.log[i].k = k

\* the sub-manifest of pack k cannot be obtained, or (zip) its content archive
FatalPack(k) ==
    /\ Included(pack.packs[k], pack.l_tags)
    /\ \/ pack.packs[k].sub = "gone"
       \/ pack.packs[k].type = "zip" /\ pack.packs[k].content = "gone"

Terminated == run.pc \in {"exit", "raised"}

\* C16: the run ends early, through sys.exit with a nonzero code and without
\* processing a later pack, whenever the root manifest loads empty, the
\* sub-manifest of a pack (zip, files or arcade) loads empty, or the content
\* archive of a zip pack cannot be obtained; nothing else ends the run early.
C16_FatalAcquisition ==
    IsRun =>
        /\ (pack.root = "gone" /\ run.pc # "start") => (run.pc = "exit" /\ run.code = 2)
        /\ \A k \in PackIdx :
            (pack.root = "ok" /\ FatalPack(k) /\ run.pc # "start" /\ run.k >= k)
                => (run.k = k /\ (run.pc = "packs" \/ (run.pc = "exit" /\ run.code = 2)))
        /\ Terminated
            => /\ run.pc = "exit"
               /\ pack.root = "gone" \/ (run.k \in PackIdx /\ FatalPack(run.k))

\* the scenario of C17: one files pack with tag 1, its sub-manifest and its
\* artifact reachable and valid, 'arcade' requested
Scenario ==
    /\ IsRun
    /\ pack.root = "ok"
    /\ pack.l_tags = {"arcade"}
    /\ Len(pack.packs) = 1
    /\ pack.packs[1] = [type |-> "files", tags |-> <<1>>, sub |-> "ok", content |-> "ok",
                        art |-> "ok"]

ScenarioCached == CacheRoot \o <<FilesDir[1], Names[1]>>

ScenarioDeployed == OutRoot \o <<OutPath[1], Names[1]>>

FetchesIn(lg) == {i \in 1..Len(lg) : lg[i].op = "fetch"}

C19_PackInclusion ==
    IsRun =>
        /\ \A i, j \in 1..Len(run.log) :
            (i < j /\ run.log[i].op = "pack" /\ run.log[j].op = "pack")
                => run.log[i].k < run.log[j].k
        /\ \A k \in PackIdx : Processed(k) => Included(pack.packs[k], pack.l_tags)
        /\ \A k \in PackIdx :
            (run.pc # "start" /\ run.k > k) => (Processed(k) <=> Included(pack.packs[k], pack.l_tags))
        /\ run.pc \in {"done", "raised"}
            => \A k \in PackIdx : Included(pack.packs[k], pack.l_tags) => Processed(k)

\* ------------------------------------------------ the arcade specification
Descriptors == {<<"gng", ".mra">>, <<"gng", "2", ".mra">>, <<"other", ".mra">>}

\* the descriptor lists of a core: up to MaxFiles descriptors, none twice
MraLists ==
    {l \in UNION {[1..n -> Descriptors] : n \in 1..MaxFiles} :
        \A i, j \in 1..Len(l) : i # j => l[i] # l[j]}

OtherCore ==
    [tag |-> <<"sf", "arcade">>, l_mra |-> <<<<"sf", ".mra">>>>, default_mra |-> <<>>,
     default_arc |-> <<>>]

InitArc ==
    /\ \E l \in MraLists, dm \in {<<>>, <<"gng">>, <<"gng", "2">>, <<"other">>},
          da \in {<<>>, <<"GnG">>}, more \in BOOLEAN, bin \in {"ok", "gone"} :
        pack = [ptype |-> "arc",
                cores |-> <<[tag |-> <<"jt", "gng", "arcade">>, l_mra |-> l,
                             default_mra |-> dm, default_arc |-> da]>>
                            \o (IF more THEN <<OtherCore>> ELSE <<>>),
                net |-> [remote |-> (MraBinUrl :> Served(bin)), archives |-> <<>>]]
    /\ fs \in {NoFs, MraBinPath :> Good}
    /\ run = Idle
    /\ last = NoCall
    /\ streak = 0

\* build_arcade_sd_fromdb, lines 635-638
BuildArcFiles ==
    /\ run.pc = "idle"
    /\ LET r == build_arc_files(fs, pack.cores, pack.net)
       IN  /\ fs' = r.fs
           /\ run' = [pc |-> "done", ok |-> r.bin, raised |-> r.raised, log |-> r.log]
    /\ UNCHANGED <<pack, last, streak>>

NextArc == BuildArcFiles

SpecArc == InitArc /\ [][NextArc]_vars

\* the calls for descriptor j of core ci, with the default naming and with an
\* explicit name
PlainInv(ci, j) ==
    {i \in 1..Len(run.log) : run.log[i].core = ci /\ run.log[i].j = j /\ run.log[i].name = <<>>}

NamedInv(ci, j) ==
    {i \in 1..Len(run.log) : run.log[i].core = ci /\ run.log[i].j = j /\ run.log[i].name # <<>>}

\* the descriptor named by the core's default_mra
ConfiguredDefault(core, j) ==
    /\ core.default_mra # <<>>
    /\ core.l_mra[j] \in {core.default_mra, core.default_mra \o <<".mra">>}

\* C20: with the converter at hand, every descriptor of a core with N >= 1
\* descriptors gets exactly one call with the default naming, into the output
\* root when N = 1 and into the core's subdirectory (core name without
\* 'arcade' and 'jt', upper-cased) when N > 1; it gets one more call, with an
\* explicit name (default_arc if set, else the name from the tag) and into the
\* output root, exactly when N = 1 or it is the core's default descriptor.
C20_ArcadeSynthesis ==
    (pack.ptype = "arc" /\ run.pc = "done" /\ run.ok)
        => \A ci \in 1..Len(pack.cores) :
            LET core == pack.cores[ci]
                N == Len(core.l_mra)
            IN  \A j \in 1..N :
                    /\ Cardinality(PlainInv(ci, j)) = 1
                    /\ \A i \in PlainInv(ci, j) :
                        /\ run.log[i].mra = core.l_mra[j]
                        /\ run.log[i].sub =
                            IF N = 1 THEN <<>>
                            ELSE upper(Without(Without(core.tag, "arcade"), "jt"))
                    /\ Cardinality(NamedInv(ci, j)) =
                            IF N = 1 \/ ConfiguredDefault(core, j) THEN 1 ELSE 0
                    /\ \A i \in NamedInv(ci, j) :
                        /\ run.log[i].mra = core.l_mra[j]
                        /\ run.log[i].sub = <<>>
                        /\ run.log[i].name =
                            upper((IF core.default_arc # <<>> THEN core.default_arc
                                   ELSE Without(core.tag, "arcade")) \o <<".arc">>)

\* ------------------------------------------- the arcade pack specification
\* One arcade pack built on an empty cache (or with the converter cached).
\* The pack is pack 1 of a run; gone is the manifest whose source is missing
\* (0: none).
ArcadeDbNames == <<PackDb[1], "mra_db.json", "cores_db.json">>

MraNames == <<<<"gng", ".mra">>, <<"gng", "2", ".mra">>, <<"other", ".mra">>, <<"sf", ".mra">>>>

RomDict == <<[name |-> <<"jt", "gng">>, id |-> 1], [name |-> <<"x">>, id |-> 2]>>

MraDict ==
    <<[name |-> <<"jt", "gng", "arcade">>, id |-> 1], [name |-> <<"sf", "arcade">>, id |-> 2],
      [name |-> <<"x", "arcade">>, id |-> 3]>>

CoresDb ==
    <<[name |-> <<"jt", "gng">>, default_mra |-> <<"gng">>, default_arc |-> <<>>],
      [name |-> <<"sf">>, default_mra |-> <<>>, default_arc |-> <<>>]>>

\* ROM records: of a known core, of a known core and not served, of no core
RomShapes ==
    {[tags |-> <<1>>, st |-> "ok"], [tags |-> <<1>>, st |-> "gone"], [tags |-> <<2>>, st |-> "ok"]}

\* descriptor records: of the first core, the same not served, of the second
\* core, of no core, an alternative, and a file that is no descriptor
MraShapes ==
    {[key |-> "", ext |-> ".mra", tags |-> <<1>>, st |-> "ok"],
     [key |-> "", ext |-> ".mra", tags |-> <<1>>, st |-> "gone"],
     [key |-> "", ext |-> ".mra", tags |-> <<2>>, st |-> "ok"],
     [key |-> "", ext |-> ".mra", tags |-> <<3>>, st |-> "ok"],
     [key |-> "_alternatives", ext |-> ".mra", tags |-> <<1>>, st |-> "ok"],
     [key |-> "", ext |-> ".txt", tags |-> <<1>>, st |-> "ok"]}

RomOf(i, x) == [name |-> Names[i], tags |-> x.tags, st |-> x.st]

MraOf(i, x) ==
    [key |-> x.key, name |-> SubSeq(MraNames[i], 1, Len(MraNames[i]) - 1) \o <<x.ext>>,
     tags |-> x.tags, st |-> x.st]

RECURSIVE RomRemote(_, _)
RomRemote(l, i) ==
    IF i > Len(l) THEN <<>> ELSE (RomUrl(l[i]) :> Served(l[i].st)) @@ RomRemote(l, i + 1)

RECURSIVE MraRemote(_, _)
MraRemote(l, i) ==
    IF i > Len(l) THEN <<>> ELSE (MraUrl(l[i]) :> Served(l[i].st)) @@ MraRemote(l, i + 1)

ArcadeNet(gone, arc, bin) ==
    [remote |-> (urljoin(DbUrlBase, ZipName(ArcadeDbNames[1])) :> Served(IF gone = 1 THEN "gone" ELSE "ok"))
                    @@ (urljoin(DbUrlBase, ZipName(ArcadeDbNames[2])) :> Served(IF gone = 2 THEN "gone" ELSE "ok"))
                    @@ (urljoin(DbUrlBase, ZipName(ArcadeDbNames[3])) :> Served(IF gone = 3 THEN "gone" ELSE "ok"))
                    @@ (MraBinUrl :> Served(IF bin = "gone" THEN "gone" ELSE "ok"))
                    @@ RomRemote(arc.roms, 1)
                    @@ MraRemote(arc.mras, 1),
     archives |-> <<>>]

InitArcade ==
    /\ \E gone \in 0..3, bin \in {"cached", "ok", "gone"} :
        \E rs \in UNION {[1..n -> RomShapes] : n \in 0..MaxFiles},
           ms \in UNION {[1..n -> MraShapes] : n \in 0..MaxFiles} :
            LET arc == [roms |-> [i \in 1..Len(rs) |-> RomOf(i, rs[i])], rom_dict |-> RomDict,
                        mras |-> [i \in 1..Len(ms) |-> MraOf(i, ms[i])], mra_dict |-> MraDict,
                        cores |-> CoresDb]
            IN  /\ pack = [ptype |-> "arcade", gone |-> gone, bin |-> bin, arc |-> arc,
                           net |-> ArcadeNet(gone, arc, bin)]
                /\ fs = IF bin = "cached" THEN MraBinPath :> Good ELSE NoFs
    /\ run = Idle
    /\ last = NoCall
    /\ streak = 0

\* main, lines 95-97
BuildArcadePack ==
    /\ run.pc = "idle"
    /\ LET o == build_arcade_sd_fromdb(fs, 1, pack.arc, pack.net)
       IN  /\ fs' = o.fs
           /\ run' = [pc |-> "done", how |-> o.how, ok |-> o.ok, raised |-> o.how = "raised",
                      log |-> o.log]
    /\ UNCHANGED <<pack, last, streak>>

NextArcade == BuildArcadePack

SpecArcade == InitArcade /\ [][NextArcade]_vars

ArcadeDone == pack.ptype = "arcade" /\ run.pc = "done"

\* the phase of an event of the build: 0 for a manifest, 1 for a ROM archive,
\* 2 for a descriptor, 3 for the converter binary, 4 for a converter call
Phase(e) ==
    CASE e.op = "load" -> 0
      [] e.op = "rom" -> 1
      [] e.op = "mra" -> 2
      [] e.op = "bin" -> 3
      [] e.op = "inv" -> 4
      [] e.op = "fetch" /\ IsPrefix(CacheRoot \o <<"roms">>, e.path) -> 1
      [] e.op = "fetch" /\ IsPrefix(CacheRoot \o <<"mra">>, e.path) -> 2
      [] e.op = "fetch" /\ e.path = MraBinPath -> 3
      [] OTHER -> 0

Loaded(i) == Cardinality({j \in 1..(i - 1) : run.log[j].op = "load" /\ run.log[j].ok})

\* C23: in an arcade pack the three manifests are loaded before any ROM
\* archive or descriptor is fetched, and when one of them is empty the build
\* exits without an artifact event; every ROM-archive ensure comes before
\* every descriptor ensure, every descriptor ensure before the ensure of the
\* converter binary and before every converter call; without the converter
\* binary there is no converter call.
C23_ArcadePhaseOrder ==
    ArcadeDone
        => /\ \A i \in 1..Len(run.log) : Phase(run.log[i]) > 0 => Loaded(i) = 3
           /\ pack.gone # 0
                => /\ run.how = "exit"
                   /\ \A i \in 1..Len(run.log) : Phase(run.log[i]) = 0
           /\ \A i, j \in 1..Len(run.log) :
                i < j => Phase(run.log[i]) <= Phase(run.log[j])
           /\ \A i, j \in 1..Len(run.log) :
                (run.log[i].op = "bin" /\ run.log[j].op = "inv") => run.log[i].ok
           /\ pack.bin = "gone" => \A i \in 1..Len(run.log) : run.log[i].op # "inv"

\* a build that fetched a ROM archive and a descriptor, got the converter and
\* called it
C23_Witness ==
    /\ ArcadeDone
    /\ run.how = "ret"
    /\ \E i, j \in 1..Len(run.log) :
        /\ run.log[i].op = "fetch" /\ Phase(run.log[i]) = 1
        /\ run.log[j].op = "fetch" /\ Phase(run.log[j]) = 2
    /\ \E i, j \in 1..Len(run.log) :
        /\ run.log[i].op = "bin" /\ run.log[i].ok
        /\ run.log[j].op = "inv"

\* ------------------------------------------------------ the URL specification
\* A URL is a sequence of at most MaxUrl tokens: a safe character, a space (an
\* unsafe character) or the escape of a space.  The server knows one URL.
MaxUrl == 2

UrlTokens == {"a", " ", "%20"}

Urls == UNION {[1..n -> UrlTokens] : n \in 1..MaxUrl}

InitUrl ==
    /\ \E u \in Urls : \E sv \in Urls \cup {quote(u), unquote(u)} :
        pack = [ptype |-> "url", url |-> u, served |-> sv,
                net |-> [remote |-> (sv :> [st |-> "ok", body |-> Good]), archives |-> <<>>]]
    /\ fs = NoFs
    /\ last = NoCall
    /\ streak = 0
    /\ run = Idle

\* one call chk_or_obtain(TargetPath, s_url = url) on an empty cache
FetchUrl ==
    /\ run.pc = "idle"
    /\ LET r == chk_or_obtain(fs, TargetPath, 0, 0, pack.url, <<>>, <<>>, FALSE, pack.net)
       IN  /\ fs' = r.fs
           /\ run' = [pc |-> "done", ok |-> r.ok, raised |-> r.raised, log |-> r.log]
    /\ UNCHANGED <<pack, last, streak>>

NextUrl == FetchUrl

SpecUrl == InitUrl /\ [][NextUrl]_vars

UrlDone == pack.ptype = "url" /\ run.pc = "done"

\* percent-decoding changes the length of the URL
DecodingChangesLength(u) == StrLen(unquote(u)) # StrLen(u)

\* C21 as stated: the URL is percent-encoded before the fetch exactly when
\* percent-decoding changes its length, and is fetched as given otherwise --
\* the file is obtained exactly when the server knows that URL.
C21_EncodeWhenLengthChanges ==
    UrlDone
        => (isfile(fs, TargetPath)
                <=> pack.served = IF DecodingChangesLength(pack.url)
                                  THEN quote(pack.url) ELSE pack.url)

\* C21, amended: the URL is percent-encoded before the fetch exactly when
\* percent-decoding leaves its length unchanged (it holds no escape yet); a
\* URL whose length changes (it is encoded already) is fetched as given.
C21_EncodeWhenLengthUnchanged ==
    UrlDone
        => (isfile(fs, TargetPath)
                <=> pack.served = IF DecodingChangesLength(pack.url)
                                  THEN pack.url ELSE quote(pack.url))

\* a URL with a space and no escape is fetched in its encoded form
C21_Witness ==
    /\ UrlDone
    /\ ~DecodingChangesLength(pack.url)
    /\ quote(pack.url) # pack.url
    /\ pack.served = quote(pack.url)
    /\ isfile(fs, TargetPath)
    /\ run.ok

====
